---- MODULE Spec2Model ----
(***************************************************************************)
(* Model of the ambient-brightness daemon: the Control Channel thread      *)
(* (ControlServer::run), the command queue, and the Scheduler loop of      *)
(* main() with its update pass (AmbientBrightness::update,                 *)
(* KBDBrightness::adjust, ScreenBrightness::adjust).                       *)
(***************************************************************************)
EXTENDS Integers, Sequences, FiniteSets, TLC

(* ------------------------------ bounds -------------------------------- *)
\* number of client connections made during a run
MaxConns == 2
\* number of periodic ticks the 5 s ticker delivers during a run
MaxTicks == 1
\* number of interrupted polls in a row the model follows
MaxPollRetry == 1
\* the same number where the Control Channel is checked on its own
MaxIntr == 4

(* ------------------------- program constants -------------------------- *)
\* bounded(1): capacity of the command queue
QueueCap == 1
\* Fixed::from_millis(100).take(3): retries of accept and of the opcode read
RetryTake == 3
\* max_brightness of the screen device, read once at construction
max_brightness == 120

\* amounts a client passes to increase() / decrease()  (i8)
Amounts == {100}
\* an opcode byte that is none of 0, 1, 2, 3
UnknownOpcodes == {4}
\* WMA::new(10, ..): length of the filter window
WmaLen == 10
\* (2500000u32).ilog10(): the ceiling put on the logarithm of a reading
max == 6
\* logarithms are carried as integers, in thousandths
Scale == 1000
\* raw readings of the light sensor: the steady reading of a lit room
SensorRaws == {316228}
\* raw readings from darkness to the sensor's largest reading and beyond
RawSamples == {1, 316228, 2500000, 1000000000}
\* raw readings whose logarithm is below the ceiling
SteadyRaws == {1, 2000, 10000, 316228, 1000000}

(* ------------------------------ helpers ------------------------------- *)
Min(a, b) == IF a < b THEN a ELSE b

Abs(a) == IF a < 0 THEN -a ELSE a

\* value of an i8 after two's-complement wrap-around
WrapI8(n) == ((n + 128) % 256) - 128

InI8(n) == n >= -128 /\ n <= 127

\* write_i8: the byte put on the wire for a signed amount
EncodeI8(a) == a % 256

\* a read of the amount byte as unsigned (read_u8)
DecodeU8(b) == b

\* read_i8: the signed amount of a wire byte
DecodeI8(b) == IF b >= 128 THEN b - 256 ELSE b

\* every value of an i8
I8 == -128..127

\* Command values; amount is 0 for the variants that carry none
Cmd(op, amount) == [op |-> op, amount |-> amount]

(* ------------------------- control_client.rs -------------------------- *)
\* bytes ControlClient::idle writes
idle_bytes == <<0>>

\* bytes ControlClient::active writes
active_bytes == <<1>>

\* bytes ControlClient::increase writes
increase_bytes(amount) == <<2, EncodeI8(amount)>>

\* bytes ControlClient::decrease writes
decrease_bytes(amount) == <<3, EncodeI8(amount)>>

(* --------------------------- pure mappings ---------------------------- *)
\* a step table whose bands include their upper ends
KbdLevelInclusive(new_val) ==
    IF new_val <= 50 THEN 3
    ELSE IF new_val <= 60 THEN 2
    ELSE IF new_val <= 80 THEN 1
    ELSE 0

\* KBDBrightness::adjust: the step table
KbdLevel(new_val) ==
    IF new_val < 50 THEN 3
    ELSE IF new_val < 60 THEN 2
    ELSE IF new_val < 80 THEN 1
    ELSE 0

\* ScreenBrightness::adjust: the 10-band table
ScreenPct(new_val) ==
    IF new_val < 1 THEN 5
    ELSE IF new_val < 10 THEN 10
    ELSE IF new_val < 20 THEN 15
    ELSE IF new_val < 30 THEN 20
    ELSE IF new_val < 40 THEN 25
    ELSE IF new_val < 50 THEN 30
    ELSE IF new_val < 60 THEN 35
    ELSE IF new_val < 70 THEN 40
    ELSE IF new_val < 80 THEN 45
    ELSE 50

\* an adjust that adds the offset with its sign
OffsetNewPctSigned(new_pct, off) == new_pct + off

\* ScreenBrightness::adjust: both match arms add unsigned_abs(offset); the u32
\* saturating_add cannot saturate, its operands being at most 50 and 128
OffsetNewPct(new_pct, off) == new_pct + Abs(off)

\* ScreenBrightness::pct_to_brightness
pct_to_brightness(pct) == (pct * max_brightness) \div 100

\* a level that is not clamped to max_brightness
ScreenLevelUnclamped(new_val, off) ==
    pct_to_brightness(OffsetNewPct(ScreenPct(new_val), off))

\* ScreenBrightness::adjust: the level to write
ScreenLevel(new_val, off) ==
    Min(pct_to_brightness(OffsetNewPct(ScreenPct(new_val), off)), max_brightness)

(* ----------------------- ambient_brightness.rs ------------------------ *)
\* AmbientBrightness::read: log10 of the raw reading, in thousandths
read(raw) ==
    CASE raw = 1 -> 0
      [] raw = 2000 -> 3301
      [] raw = 10000 -> 4000
      [] raw = 316228 -> 5500
      [] raw = 1000000 -> 6000
      [] raw = 2500000 -> 6398
      [] raw = 1000000000 -> 9000

\* WMA::new: the window starts filled with the first value
NewWma(initial) == [i \in 1..WmaLen |-> initial]

\* AmbientBrightness::update: max_val = val.min(self.max as f64)
max_val(val) == Min(val, max * Scale)

\* WMA::next: the oldest value leaves the window, the new one enters
PushWma(w, val) == Append(Tail(w), val)

\* WMA::next: the weighted sum of the window, the newest value weighing most
WeightedSum(w) ==
    LET sum[i \in 0..Len(w)] == IF i = 0 THEN 0 ELSE sum[i - 1] + i * w[i]
    IN  sum[Len(w)]

\* WMA::next: the sum of the weights 1..WmaLen
WeightSum == (WmaLen * (WmaLen + 1)) \div 2

\* an update that does not look at the idle flag
IdlemedIgnoresIdle(w, isIdle) ==
    LET den == (WeightSum * max * Scale) \div 100
    IN  (2 * WeightedSum(w) + den) \div (2 * den)

\* AmbientBrightness::update: new_pct = new_val * 100 / max, divided by 4 when
\* idle, then idlemed.round() as u32 (half away from zero)
Idlemed(w, isIdle) ==
    LET den == ((WeightSum * max * Scale) \div 100) * (IF isIdle THEN 4 ELSE 1)
    IN  (2 * WeightedSum(w) + den) \div (2 * den)

(* ------------------------------- state -------------------------------- *)
VARIABLES
    backlog,        \* connections waiting in the listener: the bytes each client wrote
    nConns,         \* connections made so far
    ctlPc,          \* position of the Control Channel thread
    ctlTries,       \* retries used by the retry() in progress
    socket,         \* unread bytes of the accepted connection
    socket_read,    \* the opcode byte read
    ctlCmd,         \* the Command being sent (<<>> when none)
    queue,          \* the bounded(1) command channel
    exit_bool,      \* the shared shutdown flag
    exit_chan,      \* the shutdown channel holds its message
    signalled,      \* the process-level signal has been delivered
    schedPc,        \* position of the Scheduler
    schedErr,       \* why the Scheduler loop ended in error
    cur,            \* the select arm being handled
    idle,           \* AmbientBrightness.idle
    offset,         \* ScreenBrightness.offset (i8)
    new_val,        \* result of update() in the running pass
    kbdCur,         \* keyboard device brightness
    scrCur,         \* screen device brightness
    first,          \* the after(1ms) channel
    ticker,         \* the tick(5s) channel holds a tick
    nTicks,         \* ticks delivered so far
    decoded,        \* history: Commands the channel decoded, in order
    received,       \* history: Commands the Scheduler dequeued, in order
    passLog,        \* history: stages invoked in the latest pass
    nPass,          \* history: passes started
    nDone,          \* history: passes completed
    nEvents,        \* history: select arms taken that call update
    wma,            \* AmbientBrightness.wma: the filter window, oldest first
    calls,          \* history: Commands the clients asked for, in order
    wrote           \* history: set_brightness calls of the latest pass

ctlVars == <<ctlPc, ctlTries, socket, socket_read, ctlCmd>>
clientVars == <<backlog, nConns>>
sigVars == <<exit_bool, exit_chan, signalled>>
stateVars == <<idle, offset>>
devVars == <<kbdCur, scrCur>>
timerVars == <<first, ticker, nTicks>>
schedVars == <<schedPc, schedErr, cur, new_val>>
passVars == <<passLog, nPass, nDone, nEvents>>
vars == <<backlog, nConns, ctlPc, ctlTries, socket, socket_read, ctlCmd, queue,
          exit_bool, exit_chan, signalled, schedPc, schedErr, cur, idle, offset,
          new_val, kbdCur, scrCur, first, ticker, nTicks, decoded, received,
          passLog, nPass, nDone, nEvents, wma, calls, wrote>>

\* the process is gone once main has returned an error or panicked
ProcessAlive == schedPc \notin {"failed", "panicked"}

Init ==
    /\ backlog = <<>>
    /\ nConns = 0
    /\ ctlPc = "loop"
    /\ ctlTries = 0
    /\ socket = <<>>
    /\ socket_read = 0
    /\ ctlCmd = <<>>
    /\ queue = <<>>
    /\ exit_bool = FALSE
    /\ exit_chan = FALSE
    /\ signalled = FALSE
    /\ schedPc = "select"
    /\ schedErr = "none"
    /\ cur = "none"
    /\ idle = FALSE
    /\ offset = 0
    /\ new_val = 0
    /\ kbdCur = 0
    /\ scrCur = 0
    /\ first = "pending"
    /\ ticker = FALSE
    /\ nTicks = 0
    /\ decoded = <<>>
    /\ received = <<>>
    /\ passLog = <<>>
    /\ nPass = 0
    /\ nDone = 0
    /\ nEvents = 0
    /\ \E raw \in SensorRaws : wma = NewWma(read(raw))
    /\ calls = <<>>
    /\ wrote = <<>>

(* ------------------------------ clients ------------------------------- *)
\* a client connects and writes `bytes`
Connect(bytes) ==
    /\ ProcessAlive
    /\ ctlPc \notin {"done", "err"}
    /\ nConns < MaxConns
    /\ backlog' = Append(backlog, bytes)
    /\ nConns' = nConns + 1
    /\ UNCHANGED <<ctlVars, queue, sigVars, schedVars, stateVars, wma, devVars,
                   timerVars, decoded, received, passVars, wrote>>

\* ControlClient::new followed by one call of the client
Call(cmd, bytes) == Connect(bytes) /\ calls' = Append(calls, cmd)

ClientIdle == Call(Cmd("Idle", 0), idle_bytes)

ClientActive == Call(Cmd("Active", 0), active_bytes)

ClientIncrease == \E a \in Amounts : Call(Cmd("Increase", a), increase_bytes(a))

ClientDecrease == \E a \in Amounts : Call(Cmd("Decrease", a), decrease_bytes(a))

\* a peer that writes an opcode the protocol does not define
ClientUnknown == \E b \in UnknownOpcodes : Connect(<<b>>) /\ UNCHANGED calls

\* ControlClient::new alone: connected, the call not made yet (or never made)
ClientNew == Connect(<<>>) /\ UNCHANGED calls

\* increase / decrease after write_u8, before write_i8
ClientOpcodeOnly == \E op \in {2, 3} : Connect(<<op>>) /\ UNCHANGED calls

\* idle() or active() on a connection made earlier, accepted already or not
ClientWriteLate ==
    /\ ProcessAlive
    /\ ctlPc \notin {"done", "err"}
    /\ \E op \in {0, 1} :
          /\ calls' = Append(calls, Cmd(IF op = 0 THEN "Idle" ELSE "Active", 0))
          /\ \/ /\ \E i \in 1..Len(backlog) :
                      /\ backlog[i] = <<>>
                      /\ backlog' = [backlog EXCEPT ![i] = <<op>>]
                /\ UNCHANGED socket
             \/ /\ ctlPc = "read"
                /\ socket = <<>>
                /\ socket' = <<op>>
                /\ UNCHANGED backlog
    /\ UNCHANGED <<nConns, ctlPc, ctlTries, socket_read, ctlCmd, queue, sigVars,
                   schedVars, stateVars, wma, devVars, timerVars, decoded, received,
                   passVars, wrote>>

(* ------------------------- shutdown signal ---------------------------- *)
\* the process-level signal: sets the flag and fires the shutdown channel once
Signal ==
    /\ ProcessAlive
    /\ ~signalled
    /\ signalled' = TRUE
    /\ exit_bool' = TRUE
    /\ exit_chan' = TRUE
    /\ UNCHANGED <<clientVars, calls, ctlVars, queue, schedVars, stateVars, wma, devVars,
                   timerVars, decoded, received, passVars, wrote>>

(* ---------------------- ControlServer::run ---------------------------- *)
\* the thread has ended, so its Sender is dropped
SenderDropped == ctlPc \in {"done", "err"}

\* top of the loop: the exit_bool check
CtlLoopTop ==
    /\ ProcessAlive
    /\ ctlPc = "loop"
    /\ ctlPc' = IF exit_bool THEN "done" ELSE "poll"
    /\ UNCHANGED <<ctlTries, socket, socket_read, ctlCmd, clientVars, calls, queue, sigVars,
                   schedVars, stateVars, wma, devVars, timerVars, decoded, received,
                   passVars, wrote>>

\* retry(Fixed::from_millis(100), poll(100ms)): no take(), so no attempt limit;
\* the environment interrupts at most `intr` polls in a row
Poll(intr) ==
    /\ ProcessAlive
    /\ ctlPc = "poll"
    /\ \/ /\ ctlPc' = "loop"                       \* Ok, timed out without events
          /\ ctlTries' = 0
       \/ /\ backlog # <<>>                        \* Ok, the listener is readable
          /\ ctlPc' = "accept"
          /\ ctlTries' = 0
       \/ /\ ctlTries < intr                       \* Interrupted: Retry
          /\ ctlTries' = ctlTries + 1
          /\ ctlPc' = "poll"
       \/ /\ ctlPc' = "err"                        \* any other error: Err, then `?`
          /\ ctlTries' = 0
    /\ UNCHANGED <<socket, socket_read, ctlCmd, clientVars, calls, queue, sigVars,
                   schedVars, stateVars, wma, devVars, timerVars, decoded, received,
                   passVars, wrote>>

CtlPoll == Poll(MaxPollRetry)

\* retry(Fixed::from_millis(100).take(3), listener.accept())
CtlAccept ==
    /\ ProcessAlive
    /\ ctlPc = "accept"
    /\ \/ /\ backlog # <<>>                        \* Ok((socket, _addr))
          /\ socket' = Head(backlog)
          /\ backlog' = Tail(backlog)
          /\ ctlPc' = "read"
          /\ ctlTries' = 0
       \/ /\ ctlTries < RetryTake                  \* Interrupted: Retry
          /\ ctlTries' = ctlTries + 1
          /\ ctlPc' = "accept"
          /\ UNCHANGED <<socket, backlog>>
       \/ /\ ctlTries = RetryTake                  \* Interrupted, retries used up
          /\ ctlPc' = "err"
          /\ ctlTries' = 0
          /\ UNCHANGED <<socket, backlog>>
       \/ /\ ctlPc' = "err"                        \* any other error
          /\ ctlTries' = 0
          /\ UNCHANGED <<socket, backlog>>
    /\ UNCHANGED <<socket_read, ctlCmd, nConns, calls, queue, sigVars, schedVars,
                   stateVars, wma, devVars, timerVars, decoded, received, passVars, wrote>>

\* retry(Fixed::from_millis(100).take(3), socket.read_u8())
CtlReadOpcode ==
    /\ ProcessAlive
    /\ ctlPc = "read"
    /\ \/ /\ socket # <<>>                         \* Ok(socket_read)
          /\ socket_read' = Head(socket)
          /\ socket' = Tail(socket)
          /\ ctlPc' = "match"
          /\ ctlTries' = 0
       \/ /\ ctlTries < RetryTake                  \* Interrupted: Retry
          /\ ctlTries' = ctlTries + 1
          /\ ctlPc' = "read"
          /\ UNCHANGED <<socket, socket_read>>
       \/ /\ ctlTries = RetryTake                  \* Interrupted, retries used up
          /\ ctlPc' = "err"
          /\ ctlTries' = 0
          /\ UNCHANGED <<socket, socket_read>>
       \/ /\ ctlPc' = "err"                        \* any other error
          /\ ctlTries' = 0
          /\ UNCHANGED <<socket, socket_read>>
    /\ UNCHANGED <<ctlCmd, clientVars, calls, queue, sigVars, schedVars, stateVars, wma,
                   devVars, timerVars, decoded, received, passVars, wrote>>

\* the opcode byte that stands for a Command
OpcodeOf(cmd) ==
    CASE cmd.op = "Idle" -> 0
      [] cmd.op = "Active" -> 1
      [] cmd.op = "Increase" -> 2
      [] cmd.op = "Decrease" -> 3

\* the Command `match socket_read` builds, given the amount byte for 2 and 3
DecodeCommand(opcode, amountByte) ==
    CASE opcode = 0 -> Cmd("Idle", 0)
      [] opcode = 1 -> Cmd("Active", 0)
      [] opcode = 2 -> Cmd("Increase", DecodeI8(amountByte))
      [] opcode = 3 -> Cmd("Decrease", DecodeI8(amountByte))

\* a match whose `_` arm returns an error
CtlMatchRejectsUnknown ==
    /\ ProcessAlive
    /\ ctlPc = "match"
    /\ \/ /\ socket_read \in {0, 1}
          /\ ctlCmd' = <<DecodeCommand(socket_read, 0)>>
          /\ decoded' = Append(decoded, DecodeCommand(socket_read, 0))
          /\ ctlPc' = "send"
          /\ UNCHANGED <<socket, socket_read>>
       \/ /\ socket_read \in {2, 3}
          /\ socket # <<>>
          /\ ctlCmd' = <<DecodeCommand(socket_read, Head(socket))>>
          /\ decoded' = Append(decoded, DecodeCommand(socket_read, Head(socket)))
          /\ socket' = Tail(socket)
          /\ ctlPc' = "send"
          /\ UNCHANGED socket_read
       \/ /\ socket_read \notin {0, 1, 2, 3}
          /\ ctlPc' = "err"
          /\ UNCHANGED <<ctlCmd, decoded, socket, socket_read>>
    /\ UNCHANGED <<ctlTries, clientVars, calls, queue, sigVars, schedVars,
                   stateVars, wma, devVars, timerVars, received, passVars, wrote>>

\* match socket_read { 0 | 1 | 2 | 3 => build the Command, _ => () }
CtlMatch ==
    /\ ProcessAlive
    /\ ctlPc = "match"
    /\ \/ /\ socket_read \in {0, 1}
          /\ ctlCmd' = <<DecodeCommand(socket_read, 0)>>
          /\ decoded' = Append(decoded, DecodeCommand(socket_read, 0))
          /\ ctlPc' = "send"
          /\ UNCHANGED <<socket, socket_read>>
       \/ /\ socket_read \in {2, 3}                \* socket.read_i8()? succeeds
          /\ socket # <<>>
          /\ ctlCmd' = <<DecodeCommand(socket_read, Head(socket))>>
          /\ decoded' = Append(decoded, DecodeCommand(socket_read, Head(socket)))
          /\ socket' = Tail(socket)
          /\ ctlPc' = "send"
          /\ UNCHANGED socket_read
       \/ /\ socket_read \in {2, 3}                \* socket.read_i8()? fails
          /\ ctlPc' = "err"
          /\ UNCHANGED <<ctlCmd, decoded, socket, socket_read>>
       \/ /\ socket_read \notin {0, 1, 2, 3}       \* _ => (), the socket is dropped
          /\ ctlPc' = "loop"
          /\ socket' = <<>>
          /\ socket_read' = 0
          /\ UNCHANGED <<ctlCmd, decoded>>
    /\ UNCHANGED <<ctlTries, clientVars, calls, queue, sigVars, schedVars,
                   stateVars, wma, devVars, timerVars, received, passVars, wrote>>

\* a send that overwrites the waiting command instead of blocking
CtlSendOverwrites ==
    /\ ProcessAlive
    /\ ctlPc = "send"
    /\ queue' = <<ctlCmd[1]>>
    /\ ctlCmd' = <<>>
    /\ ctlPc' = "loop"
    /\ socket' = <<>>
    /\ socket_read' = 0
    /\ UNCHANGED <<ctlTries, clientVars, calls, sigVars, schedVars,
                   stateVars, wma, devVars, timerVars, decoded, received, passVars, wrote>>

\* a send into a channel without a capacity
CtlSendUnbounded ==
    /\ ProcessAlive
    /\ ctlPc = "send"
    /\ queue' = Append(queue, ctlCmd[1])
    /\ ctlCmd' = <<>>
    /\ ctlPc' = "loop"
    /\ socket' = <<>>
    /\ socket_read' = 0
    /\ UNCHANGED <<ctlTries, clientVars, calls, sigVars, schedVars,
                   stateVars, wma, devVars, timerVars, decoded, received, passVars, wrote>>

\* command_sender.send(..): blocks while the queue is full
CtlSend ==
    /\ ProcessAlive
    /\ ctlPc = "send"
    /\ Len(queue) < QueueCap
    /\ queue' = Append(queue, ctlCmd[1])
    /\ ctlCmd' = <<>>
    /\ ctlPc' = "loop"
    /\ socket' = <<>>                              \* the socket is dropped
    /\ socket_read' = 0
    /\ UNCHANGED <<ctlTries, clientVars, calls, sigVars, schedVars,
                   stateVars, wma, devVars, timerVars, decoded, received, passVars, wrote>>

(* ------------------------------ timers -------------------------------- *)
\* after(Duration::from_millis(1)) delivers its one message
FirstFires ==
    /\ schedPc \notin {"failed", "panicked", "stopped"}
    /\ first = "pending"
    /\ first' = "ready"
    /\ UNCHANGED <<ticker, nTicks, clientVars, calls, ctlVars, queue, sigVars, schedVars,
                   stateVars, wma, devVars, decoded, received, passVars, wrote>>

\* tick(Duration::from_secs(5)) delivers a tick; its first is due after `first`
TickFires ==
    /\ schedPc \notin {"failed", "panicked", "stopped"}
    /\ first # "pending"
    /\ ~ticker
    /\ nTicks < MaxTicks
    /\ ticker' = TRUE
    /\ nTicks' = nTicks + 1
    /\ UNCHANGED <<first, clientVars, calls, ctlVars, queue, sigVars, schedVars,
                   stateVars, wma, devVars, decoded, received, passVars, wrote>>

(* --------------------- Scheduler: the select loop --------------------- *)
\* ScreenBrightness::increase: self.offset += amount
increase(off, amount) == off + amount

\* ScreenBrightness::decrease: self.offset -= amount
decrease(off, amount) == off - amount

\* what every arm that calls update(..) does on entry
StartPass(arm) ==
    /\ schedPc' = "update"
    /\ cur' = arm
    /\ nEvents' = nEvents + 1
    /\ UNCHANGED <<schedErr, new_val, passLog, nPass, nDone, wrote>>

\* recv(command_receiver) -> msg: a Command is dequeued
Dequeue(op) ==
    /\ schedPc = "select"
    /\ queue # <<>>
    /\ Head(queue).op = op
    /\ queue' = Tail(queue)
    /\ received' = Append(received, Head(queue))

\* an Idle arm that sets the flag and does not call update(..)
SchedCmdIdleNoPass ==
    /\ Dequeue("Idle")
    /\ idle' = TRUE
    /\ UNCHANGED <<offset, wma, schedVars, passVars, wrote, clientVars, calls, ctlVars, sigVars, devVars,
                   timerVars, decoded>>

\* recv arm, Idle: ambient_brightness.idle(); update(..)
SchedCmdIdle ==
    /\ Dequeue("Idle")
    /\ idle' = TRUE
    /\ StartPass("cmd")
    /\ UNCHANGED <<offset, wma, clientVars, calls, ctlVars, sigVars, devVars, timerVars,
                   decoded>>

\* an Active arm that also puts the screen offset back to 0
SchedCmdActiveResetsOffset ==
    /\ Dequeue("Active")
    /\ idle' = FALSE
    /\ offset' = 0
    /\ StartPass("cmd")
    /\ UNCHANGED <<wma, clientVars, calls, ctlVars, sigVars, devVars, timerVars,
                   decoded>>

\* recv arm, Active: ambient_brightness.active(); update(..)
SchedCmdActive ==
    /\ Dequeue("Active")
    /\ idle' = FALSE
    /\ StartPass("cmd")
    /\ UNCHANGED <<offset, wma, clientVars, calls, ctlVars, sigVars, devVars, timerVars,
                   decoded>>

\* the offset after an i8 += / -= : a result out of range wraps (release build)
\* or panics the Scheduler (debug build)
StoreOffset(result) ==
    \/ /\ InI8(result)
       /\ offset' = result
       /\ StartPass("cmd")
    \/ /\ ~InI8(result)
       /\ offset' = WrapI8(result)
       /\ StartPass("cmd")
    \/ /\ ~InI8(result)
       /\ schedPc' = "panicked"
       /\ schedErr' = "overflow"
       /\ UNCHANGED <<offset, cur, new_val, passVars, wrote>>

\* recv arm, Increase(n): screen_brightness.increase(n); update(..)
SchedCmdIncrease ==
    /\ Dequeue("Increase")
    /\ StoreOffset(increase(offset, Head(queue).amount))
    /\ UNCHANGED <<idle, wma, clientVars, calls, ctlVars, sigVars, devVars, timerVars,
                   decoded>>

\* recv arm, Decrease(n): screen_brightness.decrease(n); update(..)
SchedCmdDecrease ==
    /\ Dequeue("Decrease")
    /\ StoreOffset(decrease(offset, Head(queue).amount))
    /\ UNCHANGED <<idle, wma, clientVars, calls, ctlVars, sigVars, devVars, timerVars,
                   decoded>>

\* a recv arm that ignores the disconnected channel and selects again
SchedRecvIgnoresDisconnect ==
    /\ schedPc = "select"
    /\ queue = <<>>
    /\ SenderDropped
    /\ UNCHANGED vars

\* recv arm, `msg?` on a disconnected empty channel: main returns the error
SchedRecvDisconnected ==
    /\ schedPc = "select"
    /\ queue = <<>>
    /\ SenderDropped
    /\ schedPc' = "failed"
    /\ schedErr' = "recv"
    /\ UNCHANGED <<cur, new_val, clientVars, calls, ctlVars, queue, sigVars, stateVars, wma,
                   devVars, timerVars, decoded, received, passVars, wrote>>

\* recv(ticker) -> _ => update(..)
SchedTick ==
    /\ schedPc = "select"
    /\ ticker
    /\ ticker' = FALSE
    /\ StartPass("tick")
    /\ UNCHANGED <<first, nTicks, clientVars, calls, ctlVars, queue, sigVars, stateVars, wma,
                   devVars, decoded, received>>

\* recv(first) -> _ => update(..)
SchedFirst ==
    /\ schedPc = "select"
    /\ first = "ready"
    /\ first' = "taken"
    /\ StartPass("first")
    /\ UNCHANGED <<ticker, nTicks, clientVars, calls, ctlVars, queue, sigVars, stateVars, wma,
                   devVars, decoded, received>>

\* the shutdown arm: the signal is observed, the loop is left
SchedShutdown ==
    /\ schedPc = "select"
    /\ exit_chan
    /\ exit_chan' = FALSE
    /\ schedPc' = "draining"
    /\ UNCHANGED <<exit_bool, signalled, schedErr, cur, new_val, clientVars, calls, ctlVars,
                   queue, stateVars, wma, devVars, timerVars, decoded, received, passVars, wrote>>

\* a loop that runs one more pass after seeing the shutdown signal
SchedStopAfterPass ==
    /\ schedPc = "draining"
    /\ schedPc' = "update"
    /\ UNCHANGED <<schedErr, cur, new_val, clientVars, calls, ctlVars, queue, sigVars,
                   stateVars, wma, devVars, timerVars, decoded, received, passVars, wrote>>

\* the loop has exited
SchedStop ==
    /\ schedPc = "draining"
    /\ schedPc' = "stopped"
    /\ UNCHANGED <<schedErr, cur, new_val, clientVars, calls, ctlVars, queue, sigVars,
                   stateVars, wma, devVars, timerVars, decoded, received, passVars, wrote>>

(* --------------------- Scheduler: the update pass --------------------- *)
\* a stage returned Err: `?` in update, then `?` in the select arm
PassFails(why) ==
    /\ schedPc' = "failed"
    /\ schedErr' = why

\* an update() that clears the idle flag once it has used it
SchedUpdateClearsIdle ==
    /\ schedPc = "update"
    /\ passLog' = <<"update">>
    /\ nPass' = nPass + 1
    /\ wrote' = <<>>
    /\ \E raw \in SensorRaws : wma' = PushWma(wma, max_val(read(raw)))
    /\ new_val' = Idlemed(wma', idle)
    /\ idle' = FALSE
    /\ schedPc' = "kbd"
    /\ UNCHANGED <<schedErr, cur, nDone, nEvents, clientVars, calls, ctlVars, queue, sigVars,
                   offset, devVars, timerVars, decoded, received>>

\* let new_val = ambient_brightness.update()?, the sensor reading one of `raws`
Update(raws) ==
    /\ schedPc = "update"
    /\ passLog' = <<"update">>
    /\ nPass' = nPass + 1
    /\ wrote' = <<>>
    /\ \/ /\ \E raw \in raws : wma' = PushWma(wma, max_val(read(raw)))
          /\ new_val' = Idlemed(wma', idle)
          /\ schedPc' = "kbd"
          /\ UNCHANGED schedErr
       \/ /\ PassFails("sensor")                   \* attr_read_int("raw")? fails
          /\ UNCHANGED <<new_val, wma>>
    /\ UNCHANGED <<cur, nDone, nEvents, clientVars, calls, ctlVars, queue, sigVars,
                   stateVars, devVars, timerVars, decoded, received>>

SchedUpdate == Update(SensorRaws)

\* a pass that logs a keyboard failure and carries on with the screen
SchedKbdAdjustContinues ==
    /\ schedPc = "kbd"
    /\ passLog' = Append(passLog, "kbd")
    /\ schedErr' = "device"
    /\ schedPc' = "scr"
    /\ UNCHANGED <<cur, new_val, devVars, wrote, nPass, nDone, nEvents, clientVars, calls, ctlVars,
                   queue, sigVars, stateVars, wma, timerVars, decoded, received>>

\* an adjust that writes the level without comparing it with the device
SchedKbdAdjustAlwaysWrites ==
    /\ schedPc = "kbd"
    /\ passLog' = Append(passLog, "kbd")
    /\ wrote' = Append(wrote, "kbd")
    /\ \/ /\ kbdCur' = KbdLevel(new_val)           \* set_brightness succeeds
          /\ schedPc' = "scr"
          /\ UNCHANGED schedErr
       \/ /\ PassFails("device")
          /\ UNCHANGED kbdCur
    /\ UNCHANGED <<cur, new_val, scrCur, nPass, nDone, nEvents, clientVars, calls, ctlVars,
                   queue, sigVars, stateVars, wma, timerVars, decoded, received>>

\* kbd_brightness.adjust(new_val)?
SchedKbdAdjust ==
    /\ schedPc = "kbd"
    /\ passLog' = Append(passLog, "kbd")
    /\ \/ /\ kbdCur # KbdLevel(new_val)            \* set_brightness succeeds
          /\ kbdCur' = KbdLevel(new_val)
          /\ wrote' = Append(wrote, "kbd")
          /\ schedPc' = "scr"
          /\ UNCHANGED schedErr
       \/ /\ kbdCur = KbdLevel(new_val)            \* nothing to write
          /\ schedPc' = "scr"
          /\ UNCHANGED <<kbdCur, wrote, schedErr>>
       \/ /\ PassFails("device")                   \* self.read()? fails
          /\ UNCHANGED <<kbdCur, wrote>>
       \/ /\ kbdCur # KbdLevel(new_val)            \* set_brightness(..)? fails
          /\ PassFails("device")
          /\ wrote' = Append(wrote, "kbd")
          /\ UNCHANGED kbdCur
    /\ UNCHANGED <<cur, new_val, scrCur, nPass, nDone, nEvents, clientVars, calls, ctlVars,
                   queue, sigVars, stateVars, wma, timerVars, decoded, received>>

\* screen_brightness.adjust(new_val)?; Ok(()) ends the pass
SchedScreenAdjust ==
    /\ schedPc = "scr"
    /\ passLog' = Append(passLog, "scr")
    /\ \/ /\ scrCur # ScreenLevel(new_val, offset) \* set_brightness succeeds
          /\ scrCur' = ScreenLevel(new_val, offset)
          /\ wrote' = Append(wrote, "scr")
          /\ schedPc' = "select"
          /\ cur' = "none"
          /\ new_val' = 0
          /\ nDone' = nDone + 1
          /\ UNCHANGED schedErr
       \/ /\ scrCur = ScreenLevel(new_val, offset) \* nothing to write
          /\ schedPc' = "select"
          /\ cur' = "none"
          /\ new_val' = 0
          /\ nDone' = nDone + 1
          /\ UNCHANGED <<scrCur, wrote, schedErr>>
       \/ /\ PassFails("device")                   \* self.read()? fails
          /\ UNCHANGED <<scrCur, wrote, cur, new_val, nDone>>
       \/ /\ scrCur # ScreenLevel(new_val, offset) \* set_brightness(..)? fails
          /\ PassFails("device")
          /\ wrote' = Append(wrote, "scr")
          /\ UNCHANGED <<scrCur, cur, new_val, nDone>>
    /\ UNCHANGED <<kbdCur, nPass, nEvents, clientVars, calls, ctlVars, queue,
                   sigVars, stateVars, wma, timerVars, decoded, received>>

(* --------------------------- specification ---------------------------- *)
CtlStep == CtlLoopTop \/ CtlPoll \/ CtlAccept \/ CtlReadOpcode \/ CtlMatch \/ CtlSend

SelectStep ==
    \/ SchedCmdIdle \/ SchedCmdActive \/ SchedCmdIncrease \/ SchedCmdDecrease
    \/ SchedRecvDisconnected \/ SchedTick \/ SchedFirst \/ SchedShutdown

PassStep == SchedUpdate \/ SchedKbdAdjust \/ SchedScreenAdjust

Next ==
    \/ ClientIdle \/ ClientActive \/ ClientIncrease \/ ClientDecrease \/ ClientUnknown
    \/ Signal \/ FirstFires \/ TickFires
    \/ CtlLoopTop \/ CtlPoll \/ CtlAccept \/ CtlReadOpcode \/ CtlMatch \/ CtlSend
    \/ SchedCmdIdle \/ SchedCmdActive \/ SchedCmdIncrease \/ SchedCmdDecrease
    \/ SchedRecvDisconnected \/ SchedTick \/ SchedFirst \/ SchedShutdown \/ SchedStop
    \/ SchedUpdate \/ SchedKbdAdjust \/ SchedScreenAdjust

Spec == Init /\ [][Next]_vars

\* each thread keeps running while it can: the select returns when an arm is
\* ready, and it picks among the ready arms at random, so an arm that is ready
\* again and again is eventually taken
FairSpec ==
    /\ Spec
    /\ WF_vars(CtlStep)
    /\ WF_vars(PassStep)
    /\ WF_vars(SelectStep)
    /\ WF_vars(SchedStop)
    /\ SF_vars(SchedRecvDisconnected)
    /\ SF_vars(SchedShutdown)

\* the daemon driven by clients that only call idle() and active()
LiveNext ==
    \/ ClientIdle \/ ClientActive
    \/ Signal \/ FirstFires \/ TickFires
    \/ CtlLoopTop \/ CtlPoll \/ CtlAccept \/ CtlReadOpcode \/ CtlMatch \/ CtlSend
    \/ SchedCmdIdle \/ SchedCmdActive
    \/ SchedRecvDisconnected \/ SchedTick \/ SchedFirst \/ SchedShutdown \/ SchedStop
    \/ SchedUpdate \/ SchedKbdAdjust \/ SchedScreenAdjust

\* LiveNext under the scheduling of FairSpec
LiveSpec ==
    /\ Init /\ [][LiveNext]_vars
    /\ WF_vars(CtlStep)
    /\ WF_vars(PassStep)
    /\ WF_vars(SelectStep)
    /\ WF_vars(SchedStop)
    /\ SF_vars(SchedRecvDisconnected)
    /\ SF_vars(SchedShutdown)

(* ------------------ the Control Channel on its own -------------------- *)
ChannelPoll == Poll(MaxIntr)

\* the channel thread and its clients while the Scheduler has yet to run:
\* clients may connect before they write, and polls are interrupted more often
ChannelNext ==
    \/ ClientIdle \/ ClientActive \/ ClientIncrease \/ ClientDecrease \/ ClientUnknown
    \/ ClientNew \/ ClientOpcodeOnly \/ ClientWriteLate
    \/ CtlLoopTop \/ ChannelPoll \/ CtlAccept \/ CtlReadOpcode \/ CtlMatch \/ CtlSend

ChannelSpec == Init /\ [][ChannelNext]_vars

(* --------------------- one call through the channel -------------------- *)
\* the calls a ControlClient offers, with the bytes each writes
ClientCalls ==
    {<<Cmd("Idle", 0), idle_bytes>>, <<Cmd("Active", 0), active_bytes>>}
    \cup {<<Cmd("Increase", a), increase_bytes(a)>> : a \in I8}
    \cup {<<Cmd("Decrease", a), decrease_bytes(a)>> : a \in I8}

\* one client has connected and made its call; the channel thread is about to run
ProtoInit ==
    /\ \E c \in ClientCalls :
          /\ calls = <<c[1]>>
          /\ backlog = <<c[2]>>
    /\ nConns = 1
    /\ ctlPc = "loop"
    /\ ctlTries = 0
    /\ socket = <<>>
    /\ socket_read = 0
    /\ ctlCmd = <<>>
    /\ queue = <<>>
    /\ exit_bool = FALSE
    /\ exit_chan = FALSE
    /\ signalled = FALSE
    /\ schedPc = "select"
    /\ schedErr = "none"
    /\ cur = "none"
    /\ idle = FALSE
    /\ offset = 0
    /\ new_val = 0
    /\ kbdCur = 0
    /\ scrCur = 0
    /\ first = "pending"
    /\ ticker = FALSE
    /\ nTicks = 0
    /\ decoded = <<>>
    /\ received = <<>>
    /\ passLog = <<>>
    /\ nPass = 0
    /\ nDone = 0
    /\ nEvents = 0
    /\ \E raw \in SensorRaws : wma = NewWma(read(raw))
    /\ wrote = <<>>

ProtoNext == CtlLoopTop \/ CtlPoll \/ CtlAccept \/ CtlReadOpcode \/ CtlMatch \/ CtlSend

ProtoSpec == ProtoInit /\ [][ProtoNext]_vars

(* ------------------------------ claims -------------------------------- *)
\* C1: command-queue backpressure. Every Command the channel has decoded is, in
\* decoding order and exactly once, either already received by the Scheduler,
\* waiting in the queue, or held by the channel thread in its send; and while the
\* queue is full the send cannot complete.
C1_Backpressure ==
    /\ decoded = received \o queue \o ctlCmd
    /\ (ctlCmd # <<>> => ctlPc = "send")
    /\ ((ctlPc = "send" /\ Len(queue) = QueueCap) => ~ENABLED CtlSend)

\* two Commands decoded before the Scheduler drained the first: the second waits
C1_Witness ==
    /\ Len(decoded) = 2
    /\ received = <<>>
    /\ queue = <<decoded[1]>>
    /\ ctlCmd = <<decoded[2]>>
    /\ ctlPc = "send"

\* C2: the command queue never holds more than one Command.
C2_AtMostOneQueued == Len(queue) <= 1

\* the queue is full and the channel thread holds the next Command
C2_Witness == Len(queue) = 1 /\ ctlPc = "send" /\ schedPc = "kbd"

\* C3: idle and offset change only in a Scheduler step that dequeues exactly one
\* Command; no Control Channel step and no update-pass step changes them.
C3_OnlySchedulerMutates ==
    [][(idle' # idle \/ offset' # offset) =>
          /\ schedPc = "select"
          /\ queue # <<>>
          /\ queue' = Tail(queue)
          /\ received' = Append(received, Head(queue))
          /\ schedPc' = "update"
          /\ UNCHANGED ctlVars]_vars

\* both fields have been changed by commands, and a pass has run since
C3_Witness == idle /\ offset # 0 /\ nDone >= 2 /\ schedPc = "select"

\* the Scheduler has left its loop
Terminated == schedPc \in {"stopped", "failed", "panicked"}

C5_ChannelExitsCleanly ==
    (exit_bool /\ schedPc = "stopped" /\ ctlPc = "send") ~> (ctlPc = "done")

\* C6: once the channel thread has died of an I/O error the Scheduler loop
\* eventually ends: with an error, unless the shutdown signal stops it first.
C6_CoupledShutdown == (ctlPc = "err") ~> Terminated

\* the channel thread died and the Scheduler ended on the disconnected queue
C6_Witness == ctlPc = "err" /\ schedPc = "failed" /\ schedErr = "recv" /\ nDone >= 1

\* the stages of a pass, in the order update, keyboard, screen
StageOrder == <<"update", "kbd", "scr">>

\* C7: a pass runs update, keyboard adjust, screen adjust in that order; a stage
\* that fails ends the pass there with nothing written by it or after it, the
\* Scheduler loop ends in error, and nothing further is read or written.
C7_PassOrderAndAbort ==
    [][/\ passLog' = SubSeq(StageOrder, 1, Len(passLog'))
       /\ (schedPc' = "kbd" => passLog' = SubSeq(StageOrder, 1, 1))
       /\ (schedPc' = "scr" => passLog' = SubSeq(StageOrder, 1, 2))
       /\ (schedErr' # "none" => schedPc' \in {"failed", "panicked"})
       /\ ((schedPc \in {"update", "kbd", "scr"} /\ schedPc' = "failed") =>
              UNCHANGED <<kbdCur, scrCur, nDone>>)
       /\ (schedPc = "failed" =>
              UNCHANGED <<schedPc, passLog, nPass, nDone, new_val, kbdCur, scrCur,
                          idle, offset, received>>)]_vars

\* the keyboard stage failed after a good update: the screen stage never ran
C7_Witness ==
    /\ schedPc = "failed"
    /\ schedErr = "device"
    /\ passLog = <<"update", "kbd">>
    /\ nDone >= 1

\* history: the commands, ticks and first-timer messages the select has taken
EventsHandled ==
    Len(received) + (IF first = "taken" THEN 1 ELSE 0)
                  + (nTicks - (IF ticker THEN 1 ELSE 0))

\* the idle flag the received Commands leave
RECURSIVE IdleAfter(_)
IdleAfter(cmds) ==
    IF cmds = <<>> THEN FALSE
    ELSE LET last == cmds[Len(cmds)]
         IN  IF last.op = "Idle" THEN TRUE
             ELSE IF last.op = "Active" THEN FALSE
             ELSE IdleAfter(SubSeq(cmds, 1, Len(cmds) - 1))

\* the sum of the increases minus the decreases of the received Commands
RECURSIVE NetOffset(_)
NetOffset(cmds) ==
    IF cmds = <<>> THEN 0
    ELSE LET last == cmds[Len(cmds)]
             rest == NetOffset(SubSeq(cmds, 1, Len(cmds) - 1))
         IN  IF last.op = "Increase" THEN rest + last.amount
             ELSE IF last.op = "Decrease" THEN rest - last.amount
             ELSE rest

C9_FirstPassFirst ==
    (received # <<>> \/ nTicks - (IF ticker THEN 1 ELSE 0) > 0) => first = "taken"

\* C10: a connection whose opcode is none of 0..3 is dropped by the channel
\* thread without effect: nothing is queued or decoded, idle and offset keep
\* their values, and the thread returns to the top of its loop, not to an error.
C10_UnknownOpcodeIgnored ==
    [][(ctlPc = "match" /\ socket_read \notin {0, 1, 2, 3} /\ ctlPc' # ctlPc) =>
          /\ ctlPc' = "loop"
          /\ UNCHANGED <<queue, decoded, ctlCmd, idle, offset, received, schedPc,
                         schedErr>>]_vars

\* an unknown opcode was dropped earlier and the next connection is being served
C10_Witness ==
    /\ nConns = 2
    /\ backlog = <<>>
    /\ Len(decoded) = 1
    /\ received = <<>>
    /\ ctlPc = "send"
    /\ ctlCmd = decoded

\* C11: every retried operation of the channel thread has an attempt limit: the
\* retries an operation has used never exceed the limit of the bounded retry, a
\* further interruption being fatal to the thread.
C11_RetriesBounded == ctlTries <= RetryTake

\* C19: what one client does with its connection cannot end the channel thread:
\* an accepted connection with no byte to read, and a connection whose opcode 2
\* or 3 is not followed by an amount byte, do not make the thread return an error.
C19_ClientCannotEndChannel ==
    [][(/\ ctlPc \in {"read", "match"}
        /\ socket = <<>>
        /\ (ctlPc = "match" => socket_read \in {2, 3}))
       => ctlPc' # "err"]_vars

\* C12: protocol round trip. For the one call a client made on its connection
\* (idle, active, increase(a), decrease(a), a any signed byte) the channel reads
\* one opcode byte, and one amount byte more for increase and decrease, leaving
\* nothing unread; the Command it builds and enqueues is the call's own, with the
\* same amount, and there is one Command for the connection.
C12_RoundTrip ==
    /\ Len(calls) = 1
    /\ decoded \in {<<>>, calls}
    /\ queue \in {<<>>, calls}
    /\ (ctlPc = "match" =>
          Len(socket) = IF calls[1].op \in {"Increase", "Decrease"} THEN 1 ELSE 0)
    /\ (ctlPc = "send" => (socket = <<>> /\ ctlCmd = calls /\ decoded = calls))
    /\ (queue # <<>> => (ctlCmd = <<>> /\ decoded = calls /\ backlog = <<>>))

C12_Witness == queue = <<Cmd("Decrease", -128)>> /\ ctlPc = "poll"

(* ---------------------- passes in a steady state ----------------------- *)
\* commands handled before the passes under study
CommandHistories ==
    { <<>>,
      <<Cmd("Idle", 0)>>,
      <<Cmd("Increase", 7)>>,
      <<Cmd("Decrease", 7)>>,
      <<Cmd("Idle", 0), Cmd("Increase", 127)>>,
      <<Cmd("Decrease", 100), Cmd("Decrease", 28)>> }

\* brightness values the screen device may hold
ScreenLevels == {0, 24, 60, max_brightness}

\* the daemon after some commands, the timers still to fire: the sensor has been
\* reading one value, and each device holds whatever was last set from outside
SteadyInit ==
    /\ \E h \in CommandHistories :
          /\ calls = h
          /\ decoded = h
          /\ received = h
          /\ nConns = Len(h)
          /\ idle = IdleAfter(h)
          /\ offset = NetOffset(h)
          /\ nPass = Len(h)
          /\ nDone = Len(h)
          /\ nEvents = Len(h)
          /\ passLog = IF h = <<>> THEN <<>> ELSE StageOrder
    /\ \E raw \in SteadyRaws : wma = NewWma(read(raw))
    /\ kbdCur \in 0..3
    /\ scrCur \in ScreenLevels
    /\ backlog = <<>>
    /\ ctlPc = "loop"
    /\ ctlTries = 0
    /\ socket = <<>>
    /\ socket_read = 0
    /\ ctlCmd = <<>>
    /\ queue = <<>>
    /\ exit_bool = FALSE
    /\ exit_chan = FALSE
    /\ signalled = FALSE
    /\ schedPc = "select"
    /\ schedErr = "none"
    /\ cur = "none"
    /\ new_val = 0
    /\ first = "pending"
    /\ ticker = FALSE
    /\ nTicks = 0
    /\ wrote = <<>>

\* update() while the sensor keeps reading what it read last
SteadyUpdate == Update({raw \in SteadyRaws : max_val(read(raw)) = wma[WmaLen]})

SteadyNext ==
    \/ FirstFires \/ TickFires \/ SchedFirst \/ SchedTick
    \/ SteadyUpdate \/ SchedKbdAdjust \/ SchedScreenAdjust

SteadySpec == SteadyInit /\ [][SteadyNext]_vars

\* passes started since the steady state began
SteadyPasses == nPass - Len(received)

\* C13: idempotence of adjust. An adjust of either mapper makes one write call
\* when the device differs from the target and none when it holds the target,
\* and leaves the device at the target; so with the ambient percentage and the
\* offset unchanged and no change from outside, the second and every later pass
\* make no write call at all.
C13_AdjustIdempotent ==
    [][/\ ((schedPc = "kbd" /\ schedPc' = "scr") =>
            /\ kbdCur' = KbdLevel(new_val)
            /\ wrote' = IF kbdCur = KbdLevel(new_val) THEN wrote
                        ELSE Append(wrote, "kbd"))
       /\ ((schedPc = "scr" /\ schedPc' = "select") =>
            /\ scrCur' = ScreenLevel(new_val, offset)
            /\ wrote' = IF scrCur = ScreenLevel(new_val, offset) THEN wrote
                        ELSE Append(wrote, "scr"))
       /\ (SteadyPasses' >= 2 => (wrote' = <<>> /\ UNCHANGED devVars))]_vars

C13_Witness ==
    /\ SteadyPasses = 2
    /\ nDone = nPass
    /\ wrote = <<>>
    /\ offset = -128
    /\ kbdCur = 1
    /\ scrCur = max_brightness

(* ------------------------ two commands in a row ------------------------ *)
\* amounts of the commands under study
CmdAmounts == {-128, -3, 3, 10, 127}

CmdSamples ==
    {Cmd("Idle", 0), Cmd("Active", 0)}
    \cup {Cmd("Increase", a) : a \in CmdAmounts}
    \cup {Cmd("Decrease", a) : a \in CmdAmounts}

\* two clients have made a call each: the first Command waits in the queue, the
\* channel thread holds the second in its send, the Scheduler is about to select
CmdInit ==
    /\ \E c1 \in CmdSamples, c2 \in CmdSamples :
          /\ calls = <<c1, c2>>
          /\ decoded = <<c1, c2>>
          /\ queue = <<c1>>
          /\ ctlCmd = <<c2>>
          /\ socket_read = OpcodeOf(c2)
    /\ nConns = 2
    /\ backlog = <<>>
    /\ ctlPc = "send"
    /\ ctlTries = 0
    /\ socket = <<>>
    /\ exit_bool = FALSE
    /\ exit_chan = FALSE
    /\ signalled = FALSE
    /\ schedPc = "select"
    /\ schedErr = "none"
    /\ cur = "none"
    /\ idle = FALSE
    /\ offset = 0
    /\ new_val = 0
    /\ kbdCur = 0
    /\ scrCur = 0
    /\ first = "pending"
    /\ ticker = FALSE
    /\ nTicks = 0
    /\ received = <<>>
    /\ passLog = <<>>
    /\ nPass = 0
    /\ nDone = 0
    /\ nEvents = 0
    /\ \E raw \in SensorRaws : wma = NewWma(read(raw))
    /\ wrote = <<>>

CmdNext ==
    \/ CtlSend
    \/ SchedCmdIdle \/ SchedCmdActive \/ SchedCmdIncrease \/ SchedCmdDecrease
    \/ SchedUpdate \/ SchedKbdAdjust \/ SchedScreenAdjust

CmdSpec == CmdInit /\ [][CmdNext]_vars

\* C14: from offset 0, Increase(10) then Decrease(3) leave the stored offset at
\* +7; every screen adjust writes the level of the table percentage plus the
\* absolute value of the offset, so that for every ambient percentage the
\* offsets +k and -k give the same screen level.
C14_OffsetSevenAndAbs ==
    [][/\ (received' = <<Cmd("Increase", 10), Cmd("Decrease", 3)>> => offset' = 7)
       /\ ((schedPc = "scr" /\ schedPc' = "select") =>
            scrCur' = Min(((ScreenPct(new_val) + Abs(offset)) * max_brightness) \div 100,
                          max_brightness))
       /\ \A pct \in 0..100 : ScreenLevel(pct, offset') = ScreenLevel(pct, -offset')]_vars

C14_Witness ==
    /\ received = <<Cmd("Increase", 10), Cmd("Decrease", 3)>>
    /\ offset = 7
    /\ nDone = 2
    /\ scrCur = 68

(* ------------------------ the Smoothing Engine ------------------------- *)
\* the daemon at its start, the sensor giving any reading of the sample at init;
\* a client may have had its Idle command queued already
SmoothInit ==
    /\ \E raw \in RawSamples : wma = NewWma(read(raw))
    /\ \E h \in {<<>>, <<Cmd("Idle", 0)>>} :
          /\ calls = h
          /\ decoded = h
          /\ queue = h
          /\ nConns = Len(h)
    /\ backlog = <<>>
    /\ ctlPc = "loop"
    /\ ctlTries = 0
    /\ socket = <<>>
    /\ socket_read = 0
    /\ ctlCmd = <<>>
    /\ exit_bool = FALSE
    /\ exit_chan = FALSE
    /\ signalled = FALSE
    /\ schedPc = "select"
    /\ schedErr = "none"
    /\ cur = "none"
    /\ idle = FALSE
    /\ offset = 0
    /\ new_val = 0
    /\ kbdCur = 0
    /\ scrCur = 0
    /\ first = "pending"
    /\ ticker = FALSE
    /\ nTicks = 0
    /\ received = <<>>
    /\ passLog = <<>>
    /\ nPass = 0
    /\ nDone = 0
    /\ nEvents = 0
    /\ wrote = <<>>

\* update() with the sensor giving any reading of the sample
SmoothUpdate == Update(RawSamples)

SmoothNext ==
    \/ FirstFires \/ TickFires \/ SchedFirst \/ SchedTick \/ SchedCmdIdle
    \/ SmoothUpdate \/ SchedKbdAdjust \/ SchedScreenAdjust

SmoothSpec == SmoothInit /\ [][SmoothNext]_vars

\* C15: the percentage every update returns, whatever the positive first
\* reading, the later readings and the idle flag, lies in 0..100.
C15_PercentageInRange == schedPc \in {"kbd", "scr"} => new_val \in 0..100

\* C16 as stated: with the raw samples steady at 316228 the percentage is 92;
\* once the Scheduler has processed an Idle command the pass it re-runs gets the
\* percentage 23, sets the keyboard level to 1 and the screen target to 20%.
C16_IdleScenario ==
    [][/\ (schedPc' \in {"kbd", "scr"} => new_val' = IF idle' THEN 23 ELSE 92)
       /\ ((schedPc = "kbd" /\ schedPc' = "scr" /\ idle) => kbdCur' = 1)
       /\ ((schedPc = "scr" /\ schedPc' = "select" /\ idle) =>
            scrCur' = Min(((20 + Abs(offset)) * max_brightness) \div 100,
                          max_brightness))]_vars

\* C16, amended: as above, the keyboard level set by the idle pass being 3.
C16_IdleScenarioLevel3 ==
    [][/\ (schedPc' \in {"kbd", "scr"} => new_val' = IF idle' THEN 23 ELSE 92)
       /\ ((schedPc = "kbd" /\ schedPc' = "scr" /\ idle) => kbdCur' = 3)
       /\ ((schedPc = "scr" /\ schedPc' = "select" /\ idle) =>
            scrCur' = Min(((20 + Abs(offset)) * max_brightness) \div 100,
                          max_brightness))]_vars

C16_Witness ==
    /\ received = <<Cmd("Idle", 0)>>
    /\ idle
    /\ schedPc = "select"
    /\ nDone = 2
    /\ nEvents = 2
    /\ kbdCur = 3
    /\ scrCur = 24

(* ------------------- the mappers on every percentage ------------------- *)
\* every AmbientPercentage
Percentages == 0..100

\* a pass that has just got its percentage from update(): the sensor has been
\* steady at some value, commands were handled earlier, and each device holds
\* whatever was last set
MapperInit ==
    /\ \E h \in CommandHistories :
          /\ calls = h
          /\ decoded = h
          /\ received = h
          /\ nConns = Len(h)
          /\ idle = IdleAfter(h)
          /\ offset = NetOffset(h)
          /\ nPass = Len(h) + 1
          /\ nDone = Len(h)
          /\ nEvents = Len(h) + 1
    /\ \E p \in Percentages : wma = NewWma((p * max * Scale) \div 100)
    /\ new_val = Idlemed(wma, idle)
    /\ kbdCur \in 0..3
    /\ scrCur \in ScreenLevels
    /\ backlog = <<>>
    /\ ctlPc = "loop"
    /\ ctlTries = 0
    /\ socket = <<>>
    /\ socket_read = 0
    /\ ctlCmd = <<>>
    /\ queue = <<>>
    /\ exit_bool = FALSE
    /\ exit_chan = FALSE
    /\ signalled = FALSE
    /\ schedPc = "kbd"
    /\ schedErr = "none"
    /\ cur = "first"
    /\ first = "taken"
    /\ ticker = FALSE
    /\ nTicks = 0
    /\ passLog = <<"update">>
    /\ wrote = <<>>

MapperNext == SchedKbdAdjust \/ SchedScreenAdjust

MapperSpec == MapperInit /\ [][MapperNext]_vars

\* C17: the keyboard adjust sets, for every ambient percentage, the one level of
\* the step table pct < 50 -> 3, 50 <= pct < 60 -> 2, 60 <= pct < 80 -> 1,
\* pct >= 80 -> 0 (49 -> 3, 50 -> 2, 59 -> 2, 60 -> 1, 79 -> 1, 80 -> 0), and the
\* level the device is left with is in 0..3.
C17_KeyboardTable ==
    [][(schedPc = "kbd" /\ schedPc' = "scr") =>
         /\ new_val < 50 => kbdCur' = 3
         /\ (50 <= new_val /\ new_val < 60) => kbdCur' = 2
         /\ (60 <= new_val /\ new_val < 80) => kbdCur' = 1
         /\ new_val >= 80 => kbdCur' = 0
         /\ new_val = 49 => kbdCur' = 3
         /\ new_val = 50 => kbdCur' = 2
         /\ new_val = 59 => kbdCur' = 2
         /\ new_val = 60 => kbdCur' = 1
         /\ new_val = 79 => kbdCur' = 1
         /\ new_val = 80 => kbdCur' = 0
         /\ kbdCur' \in 0..3
         /\ (wrote' # wrote => wrote' = Append(wrote, "kbd"))]_vars

C17_Witness == schedPc = "scr" /\ new_val = 50 /\ kbdCur = 2 /\ wrote = <<"kbd">>

\* C18: the screen adjust takes the target percentage from the 10-band table
\* (<1 -> 5, <10 -> 10, <20 -> 15, <30 -> 20, <40 -> 25, <50 -> 30, <60 -> 35,
\* <70 -> 40, <80 -> 45, else 50) and leaves the device at
\* floor((target + abs(offset)) * max_brightness / 100) clamped to
\* max_brightness, which for every percentage and offset is at most
\* max_brightness.
C18_ScreenTable ==
    [][(schedPc = "scr" /\ schedPc' = "select") =>
         LET target == CASE new_val < 1 -> 5
                         [] new_val >= 1 /\ new_val < 10 -> 10
                         [] new_val >= 10 /\ new_val < 20 -> 15
                         [] new_val >= 20 /\ new_val < 30 -> 20
                         [] new_val >= 30 /\ new_val < 40 -> 25
                         [] new_val >= 40 /\ new_val < 50 -> 30
                         [] new_val >= 50 /\ new_val < 60 -> 35
                         [] new_val >= 60 /\ new_val < 70 -> 40
                         [] new_val >= 70 /\ new_val < 80 -> 45
                         [] new_val >= 80 -> 50
             level == ((target + Abs(offset)) * max_brightness) \div 100
         IN  /\ scrCur' = IF level > max_brightness THEN max_brightness ELSE level
             /\ scrCur' <= max_brightness
             /\ (wrote' # wrote => wrote' = Append(wrote, "scr"))]_vars

C18_Witness ==
    /\ passLog = StageOrder
    /\ schedPc = "select"
    /\ offset = 127
    /\ scrCur = max_brightness
    /\ wrote = <<"kbd", "scr">>

\* C20: whatever Increase and Decrease commands have been received, the stored
\* offset is the exact sum of the increases minus the decreases, and the
\* Scheduler has not been aborted by the arithmetic.
C20_OffsetExactSum == schedPc # "panicked" /\ offset = NetOffset(received)

\* C21: frame conditions on ControlState. No step taken while a pass is running
\* (update, keyboard adjust, screen adjust), and no tick or first-pass timer
\* step, changes idle or offset; a step that dequeues Idle or Active leaves the
\* offset unchanged; a step that dequeues Increase or Decrease leaves the idle
\* flag unchanged; the step that ignores an unknown opcode leaves both unchanged.
C21_FrameConditions ==
    [][/\ (schedPc \in {"update", "kbd", "scr"} => UNCHANGED <<idle, offset>>)
       /\ ((ticker' # ticker \/ nTicks' # nTicks \/ first' # first) =>
              UNCHANGED <<idle, offset>>)
       /\ (received' # received =>
              /\ Head(queue).op \in {"Idle", "Active"} => offset' = offset
              /\ Head(queue).op \in {"Increase", "Decrease"} => idle' = idle)
       /\ ((ctlPc = "match" /\ socket_read \notin {0, 1, 2, 3} /\ ctlPc' # ctlPc) =>
              UNCHANGED <<idle, offset>>)]_vars

\* an Increase was applied, an unknown opcode was ignored, and the first pass,
\* the command's pass and a tick's pass have all run
C21_Witness ==
    /\ received = <<Cmd("Increase", 100)>>
    /\ ~idle
    /\ offset = 100
    /\ nConns = 2
    /\ Len(calls) = 1
    /\ backlog = <<>>
    /\ ctlPc = "poll"
    /\ nTicks = 1
    /\ ~ticker
    /\ nDone = 3
    /\ schedPc = "select"

====
